---- MODULE Spec2Model ----
(***************************************************************************)
(* Model of ch.AutoComplete (src/src/shared/js/ch.AutoComplete.js): one    *)
(* widget instance bound to one input element, its popover, its rendered   *)
(* suggestion list, the keystroke listeners and the debounce timer.        *)
(*                                                                         *)
(* Every handler is an operator from a widget record to a widget record,   *)
(* so that a handler that calls another one (a commit that blurs the       *)
(* input, whose blur handler hides the popover) is one atomic step, as it  *)
(* is in the single-threaded event loop.                                   *)
(***************************************************************************)
EXTENDS Integers, Sequences, FiniteSets

\* ---------------------------------------------------------------- bounds
\* Keystroke listeners counted on the input; a further focus leaves the
\* count at this value (every listener runs the same handler).
MaxListeners == 2
\* Consecutive keystrokes counted in one run.
MaxRun == 2

\* What the user's typing can leave in the input.
Typed == {"", "a"}
\* The text an input shows after `value = undefined`.
Undefined == "undefined"
\* Identifiers window.setTimeout can hand out here: one per listener that can
\* run in a keystroke, and one for a timer already pending.
TimerIds == 1..(MaxListeners + 1)

\* this._selected = null
null == -1
\* An event emitted without an argument.
NoArg == "-"

\* The lists a caller hands to suggest(): none, one, two and three entries,
\* in both orders and with a repeated entry.
Lists == {<<>>, <<"a">>, <<"a", "b">>, <<"b", "a", "b">>}

VARIABLES
    touch,            \* ch.support.touch
    html,             \* this._options.html
    _enabled,         \* this._enabled
    destroyed,        \* destroy() has run
    shown,            \* this._popover.isShown()
    focused,          \* document.activeElement === this._el
    value,            \* this._el.value
    _selected,        \* this._selected
    _suggestions,     \* this._suggestions
    items,            \* the <li> elements of this._$suggestionsList
    _originalQuery,   \* this._originalQuery
    keyinput,         \* number of ch.onkeyinput listeners on this.$trigger
    _stopTyping,      \* this._stopTyping, a timer identifier (0: undefined)
    timers,           \* identifiers of the pending debounce timers
    out,              \* the events emitted by the last step, in order
    last              \* the last step: operation, arguments, keystroke run

vars == <<touch, html, _enabled, destroyed, shown, focused, value, _selected,
          _suggestions, items, _originalQuery, keyinput,
          _stopTyping, timers, out, last>>

\* The widget as one record, the `that` of the handlers.
This ==
    [_enabled |-> _enabled, destroyed |-> destroyed, shown |-> shown,
     focused |-> focused, value |-> value, _selected |-> _selected,
     _suggestions |-> _suggestions, items |-> items,
     _originalQuery |-> _originalQuery,
     keyinput |-> keyinput, _stopTyping |-> _stopTyping, timers |-> timers,
     out |-> <<>>]

\* The step's result written back to the variables.
Set(s, l) ==
    /\ _enabled' = s._enabled
    /\ destroyed' = s.destroyed
    /\ shown' = s.shown
    /\ focused' = s.focused
    /\ value' = s.value
    /\ _selected' = s._selected
    /\ _suggestions' = s._suggestions
    /\ items' = s.items
    /\ _originalQuery' = s._originalQuery
    /\ keyinput' = s.keyinput
    /\ _stopTyping' = s._stopTyping
    /\ timers' = s.timers
    /\ out' = s.out
    /\ last' = l
    /\ UNCHANGED <<touch, html>>

\* What `last` records of a step: the operation, the position of the item it
\* was aimed at, the list it was given, the keystrokes in a row it ends, and
\* whether it found the popover shown and a debounce timer pending.
Op(name, pos, list, run) ==
    [op |-> name, pos |-> pos, list |-> list, run |-> run,
     wasShown |-> shown, wasPending |-> timers # {}]

\* ------------------------------------------------------------ the handlers
\* this._suggestions[i] as JavaScript reads it and an input shows it: the
\* entry at zero-based i, or undefined when i is null or past the end.
At(suggestions, i) ==
    IF i >= 0 /\ i < Len(suggestions) THEN suggestions[i + 1] ELSE Undefined

\* that.emit(ev, arg): the event reaches the listeners outside the widget.
\* The widget's own 'typing' listener only stores the query (a field read
\* nowhere in this file) and marks the input as loading; neither is kept here.
emit(s, ev, arg) ==
    [s EXCEPT !.out = Append(@, [ev |-> ev, arg |-> arg])]

\* Variant of hide that emits 'hide' only when the popover is shown.
hideOnlyWhenShown(s) ==
    IF s.shown THEN [emit(s, "hide", NoArg) EXCEPT !.shown = FALSE] ELSE s

\* AutoComplete.prototype.hide
hide(s) ==
    [emit(s, "hide", NoArg) EXCEPT !.shown = FALSE]

\* AutoComplete.prototype.isShown
isShown(s) == s.shown

\* AutoComplete.prototype._show
_show(s) ==
    emit([s EXCEPT !.shown = TRUE], "show", NoArg)

\* The 'focus.autoComplete' listener.
onFocus(s) ==
    IF s._enabled
    THEN [s EXCEPT !._originalQuery = s.value,
                   !.keyinput = IF @ < MaxListeners THEN @ + 1 ELSE @]
    ELSE s

\* Variant of onBlur that writes the original query back into the input.
onBlurRestoresQuery(s) ==
    IF s._enabled
    THEN [hide(s) EXCEPT !.keyinput = 0, !.value = s._originalQuery]
    ELSE s

\* Variant of onBlur that also cancels the debounce timer.
onBlurClearsTimer(s) ==
    IF s._enabled
    THEN [hide(s) EXCEPT !.keyinput = 0, !.timers = @ \ {s._stopTyping}]
    ELSE s

\* The 'blur.autoComplete' listener.
onBlur(s) ==
    IF s._enabled THEN [hide(s) EXCEPT !.keyinput = 0] ELSE s

\* The input loses focus (the user leaves it, or this._el.blur()): the blur
\* listener runs while it is attached; an input without focus has no blur.
blur(s) ==
    IF ~s.focused THEN s
    ELSE LET left == [s EXCEPT !.focused = FALSE]
         IN  IF left.destroyed THEN left ELSE onBlur(left)

\* One ch.onkeyinput listener: clearTimeout, then setTimeout with the
\* smallest identifier that is free.
onKeyInput(s) ==
    LET cleared == s.timers \ {s._stopTyping}
        free == TimerIds \ cleared
        id == CHOOSE i \in free : \A j \in free : i <= j
    IN  [s EXCEPT !.timers = cleared \cup {id}, !._stopTyping = id]

RECURSIVE fireKeyInput(_, _)
\* The input event runs every listener attached, n of them.
fireKeyInput(s, n) ==
    IF n = 0 THEN s ELSE fireKeyInput(onKeyInput(s), n - 1)

\* The debounce timer's callback.
onStopTyping(s, id) ==
    emit([s EXCEPT !.timers = @ \ {id}], "typing", s.value)

\* AutoComplete.prototype._setQuery
_setQuery(s) ==
    LET cleared == [s EXCEPT !.timers = @ \ {s._stopTyping}]
    IN  IF cleared._selected = null THEN cleared
        ELSE LET written ==
                     IF ~html
                     THEN [cleared EXCEPT !.value = At(cleared._suggestions, cleared._selected)]
                     ELSE cleared
             IN  blur(emit(written, "select", NoArg))

\* Variant of _toogleHighlighted that leaves the earlier highlight in place.
_toogleHighlightedKeepsOld(s) ==
    LET current == IF s._selected = null THEN null ELSE s._selected + 1
    IN  [s EXCEPT !.items =
            [k \in DOMAIN s.items |->
                [s.items[k] EXCEPT !.highlighted = (@ \/ s.items[k].posinset = current)]]]

\* AutoComplete.prototype._toogleHighlighted
_toogleHighlighted(s) ==
    LET current == IF s._selected = null THEN null ELSE s._selected + 1
    IN  [s EXCEPT !.items =
            [k \in DOMAIN s.items |->
                [s.items[k] EXCEPT !.highlighted = (s.items[k].posinset = current)]]]

\* Variant of _select that takes the position label for the index.
_selectLabelAsIndex(s, target) ==
    LET found == target.kind \in {"li", "child", "icon"} /\ target.idx \in DOMAIN s.items
        picked == IF found
                  THEN [s EXCEPT !._selected = s.items[target.idx].posinset]
                  ELSE [s EXCEPT !._selected = null]
    IN  _toogleHighlighted(picked)

\* AutoComplete.prototype._select; the target is an element of the list:
\* its kind and the index of the <li> that holds it (0: no <li> does).
_select(s, target) ==
    LET found == target.kind \in {"li", "child", "icon"} /\ target.idx \in DOMAIN s.items
        picked == IF found
                  THEN [s EXCEPT !._selected = s.items[target.idx].posinset - 1]
                  ELSE [s EXCEPT !._selected = null]
    IN  _toogleHighlighted(picked)

\* Variant of the mousedown listener without the icon's own branch: the
\* icon commits like the rest of the item.
onPointerDownIconCommits(s, target) ==
    IF target.kind \in {"li", "child", "icon"} THEN _setQuery(s) ELSE s

\* The container's mousedown listener.
onPointerDown(s, target) ==
    IF target.kind = "icon" /\ ~html
    THEN emit([s EXCEPT !.value = At(s._suggestions, s._selected)],
              "typing", At(s._suggestions, s._selected))
    ELSE IF target.kind \in {"li", "child", "icon"}
         THEN _setQuery(s)
         ELSE s

\* Variant of render that labels the items from zero.
renderFromZero(suggestions, totalItems) ==
    [i \in 1..Len(suggestions) |->
        [posinset |-> i - 1, setsize |-> totalItems, term |-> suggestions[i],
         highlighted |-> FALSE]]

\* The <li> elements suggest() writes into the list.
render(suggestions, totalItems) ==
    [i \in 1..Len(suggestions) |->
        [posinset |-> i, setsize |-> totalItems, term |-> suggestions[i],
         highlighted |-> FALSE]]

\* Variant of suggest that returns early without hiding the popover.
suggestWithoutHide(s, suggestions) ==
    IF Len(suggestions) = 0 \/ s.value = ""
    THEN s
    ELSE LET opened == IF ~isShown(s) /\ s.focused THEN _show(s) ELSE s
         IN  [opened EXCEPT !._suggestions = suggestions,
                            !._selected = null,
                            !.items = render(suggestions, Len(suggestions))]

\* Variant of suggest that does not reset the selected index.
suggestKeepsSelected(s, suggestions) ==
    IF Len(suggestions) = 0 \/ s.value = ""
    THEN [s EXCEPT !.shown = FALSE]
    ELSE LET opened == IF ~isShown(s) /\ s.focused THEN _show(s) ELSE s
         IN  [opened EXCEPT !._suggestions = suggestions,
                            !.items = render(suggestions, Len(suggestions))]

\* Variant of suggest that adds the new entries to the stored list.
suggestKeepsEntries(s, suggestions) ==
    IF Len(suggestions) = 0 \/ s.value = ""
    THEN [s EXCEPT !.shown = FALSE]
    ELSE LET opened == IF ~isShown(s) /\ s.focused THEN _show(s) ELSE s
         IN  [opened EXCEPT !._suggestions = s._suggestions \o suggestions,
                            !._selected = null,
                            !.items = render(suggestions, Len(suggestions))]

\* AutoComplete.prototype.suggest; the query is empty exactly when the
\* input's value is (escaping adds characters, it removes none).
suggest(s, suggestions) ==
    IF Len(suggestions) = 0 \/ s.value = ""
    THEN [s EXCEPT !.shown = FALSE]
    ELSE LET opened == IF ~isShown(s) /\ s.focused THEN _show(s) ELSE s
             \* the list was just emptied: no item is left in the container
             extraItems == 0
             totalItems == IF extraItems > 0 THEN extraItems - 1 ELSE Len(suggestions)
         IN  [opened EXCEPT !._suggestions = suggestions,
                            !._selected = null,
                            !.items = render(suggestions, totalItems)]

\* Variant of the 'disable' listener that hides without blurring the input.
onDisableWithoutBlur(s) ==
    IF isShown(s) THEN hide(s) ELSE s

\* The 'disable' listener.
onDisable(s) ==
    IF isShown(s) THEN blur(hide(s)) ELSE s

\* AutoComplete.prototype.destroy: the popover is torn down and the
\* listeners in the .autoComplete namespace are removed.
destroy(s) ==
    [s EXCEPT !.shown = FALSE, !.destroyed = TRUE]

\* ch.Widget's enable(): sets the flag and emits 'enable'.
enable(s) ==
    emit([s EXCEPT !._enabled = TRUE], "enable", NoArg)

\* ch.Widget's disable(): clears the flag and emits 'disable'.
disable(s) ==
    emit([s EXCEPT !._enabled = FALSE], "disable", NoArg)

\* -------------------------------------------------------------- the steps
\* Where a pointer event on the popover's container can land: on an item
\* itself (LI), on an element directly inside it (the <strong> of a match),
\* on its completion icon (I), or on the list outside every item (UL).
Targets ==
    {[kind |-> "list", idx |-> 0]}
    \cup {[kind |-> k, idx |-> i] : k \in {"li", "child", "icon"}, i \in DOMAIN items}

Init ==
    /\ touch \in BOOLEAN
    /\ html \in BOOLEAN
    /\ _enabled = TRUE
    /\ destroyed = FALSE
    /\ shown = FALSE
    /\ focused = FALSE
    /\ value \in Typed
    /\ _selected = null
    /\ _suggestions = <<>>
    /\ items = <<>>
    /\ _originalQuery = value
    /\ keyinput = 0
    /\ _stopTyping = 0
    /\ timers = {}
    /\ out = <<>>
    /\ last = [op |-> "init", pos |-> 0, list |-> <<>>, run |-> 0,
               wasShown |-> FALSE, wasPending |-> FALSE]

\* The input gains focus.
Focus ==
    /\ ~focused
    /\ LET in == [This EXCEPT !.focused = TRUE]
       IN  Set(IF destroyed THEN in ELSE onFocus(in), Op("focus", 0, <<>>, 0))

\* The input loses focus.
Blur ==
    /\ focused
    /\ Set(blur(This), Op("blur", 0, <<>>, 0))

\* The user types in the focused input, leaving v in it.
Keystroke(v) ==
    /\ focused
    /\ Set(fireKeyInput([This EXCEPT !.value = v], keyinput),
           Op("key", 0, <<>>,
              IF last.op # "key" THEN 1
              ELSE IF last.run < MaxRun THEN last.run + 1 ELSE last.run))

\* A pending debounce timer expires.
StopTyping(id) ==
    /\ id \in timers
    /\ Set(onStopTyping(This, id),
           Op("expire", 0, <<>>, IF last.op = "key" THEN last.run ELSE 0))

\* The mouse enters an element of the shown list (no touch support).
Hover(target) ==
    /\ ~touch /\ shown /\ ~destroyed
    /\ target \in Targets
    /\ Set(_select(This, target), Op("hover", target.idx, <<>>, 0))

\* Variant of PointerDown in which, with touch support, the committing
\* listener runs before the highlighting one.
PointerDownCommitsFirst(target) ==
    /\ shown /\ ~destroyed
    /\ target \in Targets
    /\ Set(IF touch THEN _select(onPointerDown(This, target), target)
                    ELSE onPointerDown(This, target),
           Op(target.kind, target.idx, <<>>, 0))

\* Pointer-down on an element of the shown list; with touch support the
\* highlighting listener is bound to the same event and runs first.
PointerDown(target) ==
    /\ shown /\ ~destroyed
    /\ target \in Targets
    /\ Set(onPointerDown(IF touch THEN _select(This, target) ELSE This, target),
           Op(target.kind, target.idx, <<>>, 0))

\* The caller answers with a list of suggestions.
Suggest(suggestions) ==
    /\ ~destroyed
    /\ Set(suggest(This, suggestions), Op("suggest", 0, suggestions, 0))

\* The caller hides the widget.
Hide ==
    /\ ~destroyed
    /\ Set(hide(This), Op("hide", 0, <<>>, 0))

\* The caller enables the widget.
Enable ==
    /\ ~destroyed
    /\ Set(enable(This), Op("enable", 0, <<>>, 0))

\* The caller disables the widget; the widget's own 'disable' listener runs.
Disable ==
    /\ ~destroyed
    /\ Set(onDisable(disable(This)), Op("disable", 0, <<>>, 0))

\* The caller destroys the widget.
Destroy ==
    /\ ~destroyed
    /\ Set(destroy(This), Op("destroy", 0, <<>>, 0))

Next ==
    \/ Focus
    \/ Blur
    \/ \E v \in Typed : Keystroke(v)
    \/ \E id \in TimerIds : StopTyping(id)
    \/ \E target \in Targets : Hover(target)
    \/ \E target \in Targets : PointerDown(target)
    \/ \E suggestions \in Lists : Suggest(suggestions)
    \/ Hide
    \/ Enable
    \/ Disable
    \/ Destroy

Spec == Init /\ [][Next]_vars

\* ------------------------------------------------------------- the claims
Ev(e, a) == [ev |-> e, arg |-> a]

\* How many times the last step emitted event e.
Count(e) == Cardinality({i \in DOMAIN out : out[i].ev = e})

\* The last step was a pointer-down on the item itself or on an element
\* directly inside it other than the icon.
OnItem(l) == l.op \in {"li", "child"}

\* C1: the selected index is null or a valid zero-based position into the
\* current suggestion list.
C1_SelectedInRange ==
    _selected = null \/ (_selected >= 0 /\ _selected < Len(_suggestions))

\* C1 witness: the last item of a list of two is selected.
C1_Witness ==
    Len(_suggestions) = 2 /\ _selected = 1 /\ last.op = "hover"

\* C2 as stated: after a pointer-down on the rendered item at position k
\* (raw-markup mode off) the input holds suggestions[k-1] and exactly one
\* 'select' was emitted.
C2_PointerDownCommitsItem ==
    (OnItem(last) /\ ~html) =>
        (value = _suggestions[last.pos] /\ Count("select") = 1)

\* C3 as stated: in a run of keystrokes on the focused, enabled input a timer
\* is pending after each keystroke and nothing was emitted yet; the expiry
\* that ends the run emits exactly one 'typing', carrying the input's value
\* as of the last keystroke, and leaves no second timer behind.
C3_RapidKeystrokes ==
    /\ (last.op = "key" /\ _enabled /\ focused /\ ~destroyed) =>
            (timers # {} /\ out = <<>>)
    /\ (last.op = "expire" /\ last.run > 0) =>
            (out = <<Ev("typing", value)>> /\ timers = {})

\* C4: after suggest(list) with an empty list, or with an empty query in the
\* input, the popover is hidden.
C4_EmptyHides ==
    (last.op = "suggest" /\ (last.list = <<>> \/ value = "")) => ~shown

\* C4 witness: an empty list arrived for a focused input with a query while
\* the popover showed an earlier list, and the popover is hidden.
C4_Witness ==
    /\ last.op = "suggest" /\ last.list = <<>> /\ last.wasShown
    /\ value # "" /\ focused /\ _suggestions # <<>> /\ ~shown

\* C5: a disable() that finds the popover shown leaves it hidden and the
\* input without focus.
C5_DisableWhileShown ==
    (last.op = "disable" /\ last.wasShown) => (~shown /\ ~focused)

\* C5 witness: disable() has hidden the popover and the input lost focus.
C5_Witness ==
    /\ last.op = "disable" /\ last.wasShown
    /\ out = <<Ev("disable", NoArg), Ev("hide", NoArg)>>
    /\ ~shown /\ ~focused /\ ~_enabled

\* C6 as stated, in the case most favourable to it (raw-markup mode off, the
\* icon's item highlighted): a pointer-down on the completion icon of the
\* item at position k copies suggestions[k-1] into the input, emits 'select'
\* and removes focus from the input, as a pointer-down on the item does.
C6_IconCommitsLikeItem ==
    (last.op = "icon" /\ ~html /\ _selected = last.pos - 1) =>
        (value = _suggestions[last.pos] /\ Count("select") = 1 /\ ~focused)

\* C6 amended: with raw-markup mode off, a pointer-down on the completion
\* icon of the highlighted item copies that suggestion into the input and
\* emits 'typing' carrying it; it emits no 'select' and leaves the input's
\* focus and the popover as they were.
C6_IconCompletesQuery ==
    [][(last'.op = "icon" /\ ~html /\ _selected' = last'.pos - 1) =>
          /\ value' = _suggestions[last'.pos]
          /\ out' = <<Ev("typing", value')>>
          /\ focused' = focused
          /\ shown' = shown]_vars

\* C6 witness: the icon of the second, highlighted item was pressed while
\* the input had focus.
C6_Witness ==
    /\ last.op = "icon" /\ last.pos = 2 /\ ~html /\ _selected = 1
    /\ focused /\ shown /\ value = _suggestions[2]
    /\ out = <<Ev("typing", value)>>

\* C7 as stated: after every suggest(list) the selected index is null.
C7_SuggestResetsSelected ==
    (last.op = "suggest") => (_selected = null)

\* C7 amended: after suggest(list) with a non-empty list and a non-empty
\* query the selected index is null; with an empty list or an empty query
\* the call leaves the selected index as it was.
C7_SuggestResetsSelectedOnRender ==
    [][(last'.op = "suggest") =>
          IF last'.list # <<>> /\ value # ""
          THEN _selected' = null
          ELSE _selected' = _selected]_vars

\* C7 witness: a list was rendered over a stored one and nothing is selected.
C7_Witness ==
    /\ last.op = "suggest" /\ Len(last.list) = 2 /\ value # ""
    /\ last.wasShown /\ _selected = null /\ shown

\* C8 as stated: after every suggest(list) the stored list equals list.
C8_SuggestReplacesList ==
    (last.op = "suggest") => (_suggestions = last.list)

\* C8 amended: after suggest(list) with a non-empty list and a non-empty
\* query the stored list equals list, with no entry of an earlier list
\* kept; with an empty list or an empty query the call leaves the stored
\* list as it was.
C8_SuggestReplacesListOnRender ==
    [][(last'.op = "suggest") =>
          IF last'.list # <<>> /\ value # ""
          THEN _suggestions' = last'.list
          ELSE _suggestions' = _suggestions]_vars

\* C8 witness: a list of one entry has replaced a stored list.
C8_Witness ==
    /\ last.op = "suggest" /\ Len(last.list) = 1 /\ value # ""
    /\ _suggestions = last.list /\ Len(items) = 1

\* C9 as stated: once destroy() has returned, no step emits an event or
\* changes a field of the widget, its timer included.
C9_DestroyedIsInert ==
    [][destroyed =>
          /\ out' = <<>>
          /\ UNCHANGED <<_selected, _suggestions, _originalQuery, _stopTyping,
                         timers, keyinput, shown>>]_vars

C11_ShownOnlyEnabled ==
    shown => _enabled

\* The labels of the rendered items, in document order.
Labels == [k \in DOMAIN items |-> items[k].posinset]

\* C12: after suggest(list) with a non-empty list and a non-empty query the
\* rendered list has one item per entry, in the order of the list, and the
\* item of the entry at zero-based i carries position label i + 1.
C12_RenderedLabels ==
    (last.op = "suggest" /\ last.list # <<>> /\ value # "") =>
        /\ Len(items) = Len(last.list)
        /\ \A k \in DOMAIN items :
              items[k].term = last.list[k] /\ items[k].posinset = k

\* C12 witness: a list of three entries was rendered with labels 1, 2, 3.
C12_Witness ==
    /\ last.op = "suggest" /\ Len(last.list) = 3 /\ value # ""
    /\ Labels = <<1, 2, 3>> /\ items[3].term = "b" /\ items[2].term = "a"

\* The last step ran the selection tracker: a hover without touch support, a
\* pointer-down with it.
Tracked(l) ==
    l.op = "hover" \/ (touch /\ l.op \in {"li", "child", "icon", "list"})

\* The items that carry the highlighted class.
Highlighted == {k \in DOMAIN items : items[k].highlighted}

\* C13: after a hover or pointer-down handled by the selection tracker the
\* item labelled _selected + 1 is the only highlighted one, and none is
\* highlighted when _selected is null.
C13_OneHighlight ==
    Tracked(last) =>
        Highlighted = IF _selected = null THEN {}
                      ELSE {k \in DOMAIN items : items[k].posinset = _selected + 1}

\* C13 witness: the third item was hovered and is the one highlighted.
C13_Witness ==
    /\ last.op = "hover" /\ last.pos = 3 /\ _selected = 2
    /\ Highlighted = {3} /\ Len(items) = 3

C15_TouchHighlightsThenCommits ==
    (touch /\ OnItem(last)) =>
        /\ _selected = last.pos - 1
        /\ Count("select") = 1
        /\ ~html => value = _suggestions[last.pos]

\* C15 witness: with touch support the second item of a list of two was
\* pressed and its text, not the first item's, is in the input.
C15_Witness ==
    /\ touch /\ ~html /\ OnItem(last) /\ last.pos = 2
    /\ _suggestions = <<"a", "b">> /\ value = "b" /\ _selected = 1
    /\ Count("select") = 1

\* C16 as stated: whenever the popover is shown the input has focus.
C16_ShownOnlyFocused ==
    shown => focused

\* C17 as stated: no step that leaves the widget disabled emits 'typing'.
C17_NoTypingWhileDisabled ==
    ~_enabled => Count("typing") = 0

\* C18 as stated: a step emits 'show' exactly when it takes the popover from
\* hidden to shown and 'hide' exactly when it takes it from shown to hidden,
\* so that the two alternate, 'show' first.
C18_ShowHideAlternate ==
    /\ Count("show") = (IF ~last.wasShown /\ shown THEN 1 ELSE 0)
    /\ Count("hide") = (IF last.wasShown /\ ~shown THEN 1 ELSE 0)

\* C18 amended: a step emits 'show' exactly when it takes the popover from
\* hidden to shown. 'hide' is emitted once by every hide() -- the caller's,
\* the blur listener's on an enabled widget -- whether or not the popover
\* was shown, and the popover is hidden after it; the popover goes from shown
\* to hidden without a 'hide' only in suggest() and in destroy().
C18_ShowOnOpenHideOnEveryHide ==
    /\ Count("show") = (IF ~last.wasShown /\ shown THEN 1 ELSE 0)
    /\ Count("hide") <= 1
    /\ Count("hide") = 1 => ~shown
    /\ last.op = "hide" => Count("hide") = 1
    /\ (last.op = "blur" /\ _enabled /\ ~destroyed) => Count("hide") = 1
    /\ (last.wasShown /\ ~shown /\ Count("hide") = 0) =>
            last.op \in {"suggest", "destroy"}

\* C18 witness: the enabled input was blurred while the popover was hidden,
\* and 'hide' was emitted.
C18_Witness ==
    /\ last.op = "blur" /\ ~last.wasShown /\ ~shown
    /\ out = <<Ev("hide", NoArg)>>

====
